---------------------------- MODULE Spec2Model ----------------------------
(***************************************************************************)
(* Verification model of the job-search pipeline:                          *)
(*   - VagasBot (discord_bot.py): the sent-jobs ledger and send_new_jobs   *)
(*   - MainScraper (main_scraper.py): the orchestrator run                 *)
(*   - _atomic_write_json (indeed_scraper.py): the checkpoint write        *)
(*   - scrape_jobs of the three sources: the page loop                     *)
(* Python strings are sequences of one-character strings; Python dicts are *)
(* records, read with Get as dict.get reads them.                          *)
(***************************************************************************)
EXTENDS Integers, Sequences, FiniteSets, TLC

VARIABLES
    \* ---- VagasBot -------------------------------------------------------
    corpus,      \* vagas_consolidadas.json: [exists, whole, jobs], jobs a list
                 \* of dicts, whole = FALSE while the file is half-written
    sent_jobs,   \* self.sent_jobs, the in-memory set of job ids
    ledgerFile,  \* vagas_enviadas.json: [kind |-> absent/partial/complete, keys]
    pc,          \* position of each send_new_jobs invocation
    new_jobs,    \* local new_jobs of each invocation
    idx,         \* loop index i of each invocation (1-based)
    report,      \* what the last call of each invocation site printed when it
                 \* ended: no_channel, no_corpus, no_new, error, success
    readyDone,   \* on_ready has started its send_new_jobs in this process
    failsLeft,   \* how many more times channel.send may still raise
    delivered,   \* history: jobs whose embed channel.send accepted at least once
    failedIds,   \* history: ids whose embed send raised in the current/last call
    okIds,       \* history: ids whose embed send succeeded in the current/last call
    saveFailed,  \* history: save_sent_jobs caught a write error in the call
    savedKeys,   \* history: the ids of the last complete vagas_enviadas.json
    sendLog,     \* history: the records of new_jobs for which the current/last
                 \* call has invoked channel.send(embed=...), in call order
    ready,       \* the tasks asyncio.create_task made for the schedule jobs
                 \* and the event loop has not started yet, oldest first
    schPc,       \* position of the run_scraper task: idle, scraping, writing
    scraped      \* history: the run_scraper task of the last tick has ended

VARIABLES
    \* ---- _atomic_write_json (indeed_scraper.py) ---------------------------
    outFile,     \* the file at path: [kind |-> absent/partial/complete, data]
    tmpFile,     \* the file at path + ".tmp"
    awPc,        \* position inside _atomic_write_json: idle, open, dump, replace
    awData,      \* the argument data of the call in progress
    awPrev,      \* history: the file at path when the call in progress began
    awLast       \* history: how the last call ended: none, done, raised, crashed

VARIABLES
    \* ---- MainScraper (main_scraper.py) ----------------------------------
    orchPc,      \* position in run_all_scrapers: idle, gupy, indeed, linkedin,
                 \* save (line 181), save_partial (line 200), done, raised
    keywords,    \* the keywords argument
    kwIdx,       \* position in the runner at orchPc: 0 before the scraper is
                 \* built, i while keyword i is next, Len(keywords)+1 after the loop
    all_jobs,    \* local all_jobs of the runner at orchPc
    results,     \* self.results
    timestamps,  \* the platforms that have an entry in self.timestamps
    written,     \* the output files: vagas_<platform>.json,
                 \* vagas_consolidadas.json, relatorio_execucao.json
    events       \* history of the run: <<who, "call" | "return" | "raise">>

VARIABLES
    \* ---- scrape_jobs of GupyScraper, IndeedScraper, LinkedInScraper -------
    scSrc,       \* whose scrape_jobs is running: none, gupy, indeed, linkedin
    scPc,        \* position: idle, setup, load, loop, exit
    max_pages,   \* the argument max_pages
    page,        \* current_page (Gupy, from 1) or page (Indeed, LinkedIn, from 0)
    scJobs,      \* all_jobs (Gupy, Indeed) or results (LinkedIn)
    found_old_job, \* Gupy: a processed page held a record older than the cutoff
    driverOpen,  \* a browser session made by _setup_driver has not been quit
    scExit,      \* how the try block is being left: return or raise
    scOut,       \* how the last call ended: none, returned, raised
    requests,    \* history: result pages requested by the call (the initial
                 \* load, next-page clicks, the page URL load of each turn)
    reloads,     \* history: LinkedIn, repeated loads of a turn's page URL by
                 \* _ensure_not_on_legal
    staleAt,     \* history: the value of requests when the call first finished
                 \* a page holding a record older than the cutoff, else -1
    emptyAt      \* history: the value of requests when the call first finished
                 \* a page that gave no parseable record, else -1

VARIABLES
    \* ---- the card loop of one result page ------------------------------
    pgSrc,       \* whose page it is: none, gupy, indeed, linkedin
    pgPc,        \* position: idle, cards (the cards were found), done
    pgCards,     \* what _extract_job_info gives for each card of the page
    pgJobs,      \* page_jobs after the card loop
    pgOld        \* Gupy: found_old_job after the page (lines 237-239)

VARIABLES
    \* ---- the deduplication functions ---------------------------------
    ddFn,        \* which function: none, gupy, linkedin (deduplicate_jobs of
                 \* that module), indeed (_deduplicate_jobs)
    ddPc,        \* position: idle, called, once, twice
    ddIn,        \* the argument jobs
    ddOut,       \* the list the function returned for ddIn
    ddOut2       \* the list the function returned for ddOut

schVars == <<ready, schPc, scraped>>

botVars == <<corpus, sent_jobs, ledgerFile, pc, new_jobs, idx, report,
             readyDone, failsLeft, delivered, failedIds, okIds, saveFailed,
             savedKeys, sendLog, schVars>>

awVars == <<outFile, tmpFile, awPc, awData, awPrev, awLast>>

orchVars == <<orchPc, keywords, kwIdx, all_jobs, results, timestamps,
              written, events>>

scVars == <<scSrc, scPc, max_pages, page, scJobs, found_old_job, driverOpen,
            scExit, scOut, requests, reloads, staleAt, emptyAt>>

pgVars == <<pgSrc, pgPc, pgCards, pgJobs, pgOld>>

ddVars == <<ddFn, ddPc, ddIn, ddOut, ddOut2>>

vars == <<botVars, awVars, orchVars, scVars, pgVars, ddVars>>

notBot == <<awVars, orchVars, scVars, pgVars, ddVars>>

notAw == <<botVars, orchVars, scVars, pgVars, ddVars>>

notOrch == <<botVars, awVars, scVars, pgVars, ddVars>>

notSc == <<botVars, awVars, orchVars, pgVars, ddVars>>

notPg == <<botVars, awVars, orchVars, scVars, ddVars>>

notDd == <<botVars, awVars, orchVars, scVars, pgVars>>

-----------------------------------------------------------------------------
(* Python values *)

\* the empty str ''
EmptyStr == <<>>

\* Python None, a value that is no str (it has no .lower())
None == <<"<None>">>

\* dict.get(key, default)
Get(d, key, default) == IF key \in DOMAIN d THEN d[key] ELSE default

\* str.lower() on one character
LowerChar(c) ==
    CASE c = "A" -> "a"
      [] c = "B" -> "b"
      [] c = "C" -> "c"
      [] c = "D" -> "d"
      [] c = "G" -> "g"
      [] c = "S" -> "s"
      [] OTHER -> c

\* str.lower()
lower(s) == [i \in 1..Len(s) |-> LowerChar(s[i])]

RECURSIVE lstrip(_)
lstrip(s) == IF s # <<>> /\ Head(s) = " " THEN lstrip(Tail(s)) ELSE s

RECURSIVE rstrip(_)
rstrip(s) ==
    IF s # <<>> /\ s[Len(s)] = " " THEN rstrip(SubSeq(s, 1, Len(s) - 1)) ELSE s

\* str.strip()
strip(s) == rstrip(lstrip(s))

\* str.replace(old, new) for one-character old and new
replace(s, old, new) == [i \in 1..Len(s) |-> IF s[i] = old THEN new ELSE s[i]]

-----------------------------------------------------------------------------
(* VagasBot.create_job_id *)

\* job.get(k, '').lower() raises AttributeError when the value is None
create_job_id_raises(job) ==
    \/ Get(job, "titulo", EmptyStr) = None
    \/ Get(job, "empresa", EmptyStr) = None
    \/ Get(job, "plataforma", EmptyStr) = None

create_job_id(job) ==
    LET title    == strip(lower(Get(job, "titulo", EmptyStr)))
        company  == strip(lower(Get(job, "empresa", EmptyStr)))
        platform == strip(lower(Get(job, "plataforma", EmptyStr)))
    IN  replace(platform \o <<"_">> \o company \o <<"_">> \o title, " ", "_")


-----------------------------------------------------------------------------
(* Bounds and inputs of the bot model *)

\* longest consolidated corpus drawn as input
MaxCorpus == 2

\* how many times channel.send may raise in one behaviour
MaxFails == 2

\* records a corpus file may hold: the first two normalise to the same id,
\* the fourth and fifth have the shape the scrapers write (nome/link, no
\* titulo and no plataforma), the last has a null empresa
BotJobs ==
    { [titulo |-> <<"a">>,      empresa |-> <<"c">>, plataforma |-> <<"g">>],
      [titulo |-> <<"A", " ">>, empresa |-> <<"C">>, plataforma |-> <<"G">>],
      [titulo |-> <<"b">>,      empresa |-> <<"c">>, plataforma |-> <<"g">>],
      [nome   |-> <<"a">>,      empresa |-> <<"c">>, link       |-> <<"l">>],
      [nome   |-> <<"b">>,      empresa |-> <<"c">>, link       |-> <<"m">>],
      [nome   |-> <<"b">>,      empresa |-> None,    link       |-> <<"l">>] }

BoundedSeq(S, n) == UNION { [1..k -> S] : k \in 0..n }

\* the two places that start send_new_jobs: on_ready and the schedule job
Tasks == {"on_ready", "scheduled"}

\* positions of an invocation at which no await is pending: save_sent_jobs
\* runs without yielding to the event loop
SyncPcs == {"save", "dump"}

-----------------------------------------------------------------------------
(* VagasBot: ledger load and the selection of new jobs *)

\* load_sent_jobs: a missing or unreadable file gives the empty set
load_sent_jobs(file) == IF file.kind = "complete" THEN file.keys ELSE {}

\* FilterNew without "self.sent_jobs.add(job_id)": nothing is marked when it
\* is selected
RECURSIVE FilterNew_NoMark(_, _, _)
FilterNew_NoMark(jobs, new, sent) ==
    IF jobs = <<>> THEN [raised |-> FALSE, new |-> new, sent |-> sent]
    ELSE LET job == Head(jobs) IN
         IF create_job_id_raises(job)
         THEN [raised |-> TRUE, new |-> new, sent |-> sent]
         ELSE IF create_job_id(job) \notin sent
              THEN FilterNew_NoMark(Tail(jobs), Append(new, job), sent)
              ELSE FilterNew_NoMark(Tail(jobs), new, sent)

\* FilterNew without the test "job_id not in self.sent_jobs"
RECURSIVE FilterNew_NoCheck(_, _, _)
FilterNew_NoCheck(jobs, new, sent) ==
    IF jobs = <<>> THEN [raised |-> FALSE, new |-> new, sent |-> sent]
    ELSE LET job == Head(jobs) IN
         IF create_job_id_raises(job)
         THEN [raised |-> TRUE, new |-> new, sent |-> sent]
         ELSE FilterNew_NoCheck(Tail(jobs), Append(new, job),
                                sent \cup {create_job_id(job)})

\* the loop "for job in all_jobs" of send_new_jobs: a job whose id is not in
\* sent_jobs is appended to new_jobs and its id is added to sent_jobs at once;
\* an exception of create_job_id leaves the loop with the additions made so far
RECURSIVE FilterNew(_, _, _)
FilterNew(jobs, new, sent) ==
    IF jobs = <<>> THEN [raised |-> FALSE, new |-> new, sent |-> sent]
    ELSE LET job == Head(jobs) IN
         IF create_job_id_raises(job)
         THEN [raised |-> TRUE, new |-> new, sent |-> sent]
         ELSE IF create_job_id(job) \notin sent
              THEN FilterNew(Tail(jobs), Append(new, job),
                             sent \cup {create_job_id(job)})
              ELSE FilterNew(Tail(jobs), new, sent)

\* positions of the run_scraper task: it has no await, so from its start to
\* its end it runs without yielding to the event loop
ScraperSync == {"scraping", "writing"}

\* no other invocation and no run_scraper task is inside a section that runs
\* without awaiting
MayRun(t) ==
    /\ \A u \in Tasks \ {t} : pc[u] \notin SyncPcs
    /\ schPc \notin ScraperSync

\* AfterRecord with the loop ending one record early
AfterRecord_StopEarly(t, i) == IF i < Len(new_jobs[t]) - 1 THEN "send" ELSE "save"

\* where the loop "for i, job in enumerate(new_jobs, 1)" goes after record i:
\* the next record's send, or save_sent_jobs after the last one
AfterRecord(t, i) == IF i < Len(new_jobs[t]) THEN "send" ELSE "save"

\* vagas_consolidadas.json does not exist
NoCorpus == [exists |-> FALSE, whole |-> TRUE, jobs |-> <<>>]

\* the file as a completed json.dump of jobs leaves it
WholeCorpus(jobs) == [exists |-> TRUE, whole |-> TRUE, jobs |-> jobs]

\* the file after open(..., 'w') and before json.dump has written it all
HalfCorpus == [exists |-> TRUE, whole |-> FALSE, jobs |-> <<>>]

\* the bot before its process is started for the first time, with no corpus
BotOff ==
    /\ corpus = NoCorpus
    /\ ledgerFile = [kind |-> "absent", keys |-> {}]
    /\ sent_jobs = {}
    /\ pc = [t \in Tasks |-> "idle"]
    /\ new_jobs = [t \in Tasks |-> <<>>]
    /\ idx = [t \in Tasks |-> 0]
    /\ report = [t \in Tasks |-> "none"]
    /\ readyDone = FALSE
    /\ failsLeft = MaxFails
    /\ delivered = {}
    /\ failedIds = [t \in Tasks |-> {}]
    /\ okIds = [t \in Tasks |-> {}]
    /\ saveFailed = [t \in Tasks |-> FALSE]
    /\ savedKeys = {}
    /\ sendLog = [t \in Tasks |-> <<>>]
    /\ ready = <<>>
    /\ schPc = "idle"
    /\ scraped = FALSE

InitBot ==
    /\ corpus \in {NoCorpus} \cup
                 {WholeCorpus(js) : js \in BoundedSeq(BotJobs, MaxCorpus)}
    /\ ledgerFile = [kind |-> "absent", keys |-> {}]
    /\ sent_jobs = {}
    /\ pc = [t \in Tasks |-> "idle"]
    /\ new_jobs = [t \in Tasks |-> <<>>]
    /\ idx = [t \in Tasks |-> 0]
    /\ report = [t \in Tasks |-> "none"]
    /\ readyDone = FALSE
    /\ failsLeft = MaxFails
    /\ delivered = {}
    /\ failedIds = [t \in Tasks |-> {}]
    /\ okIds = [t \in Tasks |-> {}]
    /\ saveFailed = [t \in Tasks |-> FALSE]
    /\ savedKeys = {}
    /\ sendLog = [t \in Tasks |-> <<>>]
    /\ ready = <<>>
    /\ schPc = "idle"
    /\ scraped = FALSE

\* SendNewJobs_Body with the channel looked up after the filter loop: the
\* ids are marked before the call finds it has no channel
SendNewJobs_Body_LateChannel(t, channelFound) ==
    /\ UNCHANGED notBot
    /\ pc[t] = "idle"
    /\ MayRun(t)
    /\ t = "on_ready" => ~readyDone
    /\ readyDone' = (readyDone \/ t = "on_ready")
    /\ failedIds' = [failedIds EXCEPT ![t] = {}]
    /\ okIds' = [okIds EXCEPT ![t] = {}]
    /\ saveFailed' = [saveFailed EXCEPT ![t] = FALSE]
    /\ idx' = [idx EXCEPT ![t] = 0]
    /\ sendLog' = [sendLog EXCEPT ![t] = <<>>]
    /\ IF ~corpus.exists
       THEN /\ report' = [report EXCEPT ![t] = "no_corpus"]
            /\ new_jobs' = [new_jobs EXCEPT ![t] = <<>>]
            /\ UNCHANGED <<sent_jobs, pc>>
       ELSE IF ~corpus.whole
       THEN /\ report' = [report EXCEPT ![t] = "error"]
            /\ new_jobs' = [new_jobs EXCEPT ![t] = <<>>]
            /\ UNCHANGED <<sent_jobs, pc>>
       ELSE LET f == FilterNew(corpus.jobs, <<>>, sent_jobs) IN
            /\ sent_jobs' = f.sent
            /\ IF f.raised
               THEN /\ report' = [report EXCEPT ![t] = "error"]
                    /\ new_jobs' = [new_jobs EXCEPT ![t] = <<>>]
                    /\ UNCHANGED pc
               ELSE IF ~channelFound
               THEN /\ report' = [report EXCEPT ![t] = "no_channel"]
                    /\ new_jobs' = [new_jobs EXCEPT ![t] = <<>>]
                    /\ UNCHANGED pc
               ELSE IF f.new = <<>>
               THEN /\ report' = [report EXCEPT ![t] = "no_new"]
                    /\ new_jobs' = [new_jobs EXCEPT ![t] = <<>>]
                    /\ UNCHANGED pc
               ELSE /\ report' = [report EXCEPT ![t] = "none"]
                    /\ new_jobs' = [new_jobs EXCEPT ![t] = f.new]
                    /\ pc' = [pc EXCEPT ![t] = "announce"]
    /\ UNCHANGED <<corpus, ledgerFile, failsLeft, delivered, savedKeys,
                   schPc, scraped>>

\* send_new_jobs from its entry to its first await (or its early return);
\* channelFound is what self.get_channel returned.  json.load of a
\* half-written file raises and the outer except ends the call
SendNewJobs_Body(t, channelFound) ==
    /\ UNCHANGED notBot
    /\ pc[t] = "idle"
    /\ MayRun(t)
    /\ t = "on_ready" => ~readyDone
    /\ readyDone' = (readyDone \/ t = "on_ready")
    /\ failedIds' = [failedIds EXCEPT ![t] = {}]
    /\ okIds' = [okIds EXCEPT ![t] = {}]
    /\ saveFailed' = [saveFailed EXCEPT ![t] = FALSE]
    /\ idx' = [idx EXCEPT ![t] = 0]
    /\ sendLog' = [sendLog EXCEPT ![t] = <<>>]
    /\ IF ~channelFound
       THEN /\ report' = [report EXCEPT ![t] = "no_channel"]
            /\ new_jobs' = [new_jobs EXCEPT ![t] = <<>>]
            /\ UNCHANGED <<sent_jobs, pc>>
       ELSE IF ~corpus.exists
       THEN /\ report' = [report EXCEPT ![t] = "no_corpus"]
            /\ new_jobs' = [new_jobs EXCEPT ![t] = <<>>]
            /\ UNCHANGED <<sent_jobs, pc>>
       ELSE IF ~corpus.whole
       THEN /\ report' = [report EXCEPT ![t] = "error"]
            /\ new_jobs' = [new_jobs EXCEPT ![t] = <<>>]
            /\ UNCHANGED <<sent_jobs, pc>>
       ELSE LET f == FilterNew(corpus.jobs, <<>>, sent_jobs) IN
            /\ sent_jobs' = f.sent
            /\ IF f.raised
               THEN /\ report' = [report EXCEPT ![t] = "error"]
                    /\ new_jobs' = [new_jobs EXCEPT ![t] = <<>>]
                    /\ UNCHANGED pc
               ELSE IF f.new = <<>>
               THEN /\ report' = [report EXCEPT ![t] = "no_new"]
                    /\ new_jobs' = [new_jobs EXCEPT ![t] = <<>>]
                    /\ UNCHANGED pc
               ELSE /\ report' = [report EXCEPT ![t] = "none"]
                    /\ new_jobs' = [new_jobs EXCEPT ![t] = f.new]
                    /\ pc' = [pc EXCEPT ![t] = "announce"]
    /\ UNCHANGED <<corpus, ledgerFile, failsLeft, delivered, savedKeys,
                   schPc, scraped>>

\* the event loop runs a send_new_jobs coroutine that is not one of the
\* tasks waiting in ready: on_ready's, or the schedule job's when the tick
\* that made it is not looked at
SendNewJobs_StartWith(t, channelFound) ==
    /\ SendNewJobs_Body(t, channelFound)
    /\ UNCHANGED ready

SendNewJobs_Start(t) ==
    \E channelFound \in BOOLEAN : SendNewJobs_StartWith(t, channelFound)

\* await channel.send("N novas vagas encontradas"): a failure leaves through
\* the outer except
SendNewJobs_Announce(t) ==
    /\ UNCHANGED notBot
    /\ pc[t] = "announce"
    /\ MayRun(t)
    /\ \/ /\ pc' = [pc EXCEPT ![t] = "send"]
          /\ idx' = [idx EXCEPT ![t] = 1]
          /\ UNCHANGED <<report, failsLeft, new_jobs>>
       \/ /\ failsLeft > 0
          /\ failsLeft' = failsLeft - 1
          /\ pc' = [pc EXCEPT ![t] = "idle"]
          /\ report' = [report EXCEPT ![t] = "error"]
          /\ new_jobs' = [new_jobs EXCEPT ![t] = <<>>]
          /\ UNCHANGED idx
    /\ UNCHANGED <<corpus, sent_jobs, ledgerFile, readyDone, delivered,
                   failedIds, okIds, saveFailed, savedKeys, sendLog, schVars>>

\* await channel.send(embed=embed) for record i: on success the invocation
\* goes on to asyncio.sleep(1); on an exception the inner except continues
\* with the next record
SendNewJobs_SendEmbed(t) ==
    /\ UNCHANGED notBot
    /\ pc[t] = "send"
    /\ MayRun(t)
    /\ sendLog' = [sendLog EXCEPT ![t] = Append(@, new_jobs[t][idx[t]])]
    /\ LET job == new_jobs[t][idx[t]] IN
       \/ /\ delivered' = delivered \cup {job}
          /\ okIds' = [okIds EXCEPT ![t] = @ \cup {create_job_id(job)}]
          /\ pc' = [pc EXCEPT ![t] = "sleep"]
          /\ UNCHANGED <<failsLeft, failedIds, idx>>
       \/ /\ failsLeft > 0
          /\ failsLeft' = failsLeft - 1
          /\ failedIds' = [failedIds EXCEPT ![t] = @ \cup {create_job_id(job)}]
          /\ pc' = [pc EXCEPT ![t] = AfterRecord(t, idx[t])]
          /\ idx' = [idx EXCEPT ![t] = @ + 1]
          /\ UNCHANGED <<delivered, okIds>>
    /\ UNCHANGED <<corpus, sent_jobs, ledgerFile, new_jobs, report, readyDone,
                   saveFailed, savedKeys, schVars>>

\* await asyncio.sleep(1) returns
SendNewJobs_Sleep(t) ==
    /\ UNCHANGED notBot
    /\ pc[t] = "sleep"
    /\ MayRun(t)
    /\ pc' = [pc EXCEPT ![t] = AfterRecord(t, idx[t])]
    /\ idx' = [idx EXCEPT ![t] = @ + 1]
    /\ UNCHANGED <<corpus, sent_jobs, ledgerFile, new_jobs, report, readyDone,
                   failsLeft, delivered, failedIds, okIds, saveFailed,
                   savedKeys, sendLog, schVars>>

\* what send_new_jobs does when save_sent_jobs has returned: it prints the
\* success line and returns
SendNewJobs_Finish(t) ==
    /\ pc' = [pc EXCEPT ![t] = "idle"]
    /\ report' = [report EXCEPT ![t] = "success"]
    /\ new_jobs' = [new_jobs EXCEPT ![t] = <<>>]

\* save_sent_jobs, open(self.sent_jobs_file, 'w'): the file is truncated; an
\* error is caught and printed by save_sent_jobs
SaveSentJobs_Open(t) ==
    /\ UNCHANGED notBot
    /\ pc[t] = "save"
    /\ \/ /\ ledgerFile' = [kind |-> "partial", keys |-> {}]
          /\ pc' = [pc EXCEPT ![t] = "dump"]
          /\ UNCHANGED <<report, new_jobs, saveFailed>>
       \/ /\ saveFailed' = [saveFailed EXCEPT ![t] = TRUE]
          /\ SendNewJobs_Finish(t)
          /\ UNCHANGED ledgerFile
    /\ UNCHANGED <<corpus, sent_jobs, idx, readyDone, failsLeft, delivered,
                   failedIds, okIds, savedKeys, sendLog, schVars>>

\* save_sent_jobs, json.dump and the close of the file: the whole of
\* sent_jobs is written; a write error is caught and printed
SaveSentJobs_Dump(t) ==
    /\ UNCHANGED notBot
    /\ pc[t] = "dump"
    /\ \/ /\ ledgerFile' = [kind |-> "complete", keys |-> sent_jobs]
          /\ savedKeys' = sent_jobs
          /\ UNCHANGED saveFailed
       \/ /\ saveFailed' = [saveFailed EXCEPT ![t] = TRUE]
          /\ UNCHANGED <<ledgerFile, savedKeys>>
    /\ SendNewJobs_Finish(t)
    /\ UNCHANGED <<corpus, sent_jobs, idx, readyDone, failsLeft, delivered,
                   failedIds, okIds, sendLog, schVars>>

\* the process stops at any point and is started again: VagasBot.__init__
\* loads the ledger file; what the channel received stays received
ProcessRestart ==
    /\ UNCHANGED notBot
    /\ sent_jobs' = load_sent_jobs(ledgerFile)
    /\ pc' = [t \in Tasks |-> "idle"]
    /\ new_jobs' = [t \in Tasks |-> <<>>]
    /\ idx' = [t \in Tasks |-> 0]
    /\ report' = [t \in Tasks |-> "none"]
    /\ readyDone' = FALSE
    /\ failedIds' = [t \in Tasks |-> {}]
    /\ okIds' = [t \in Tasks |-> {}]
    /\ saveFailed' = [t \in Tasks |-> FALSE]
    /\ sendLog' = [t \in Tasks |-> <<>>]
    /\ ready' = <<>>
    /\ schPc' = "idle"
    /\ scraped' = FALSE
    /\ UNCHANGED <<corpus, ledgerFile, failsLeft, delivered, savedKeys>>

-----------------------------------------------------------------------------
(* VagasBot: the schedule jobs of start_bot and the run_scraper task *)

\* records as save_results writes them to vagas_consolidadas.json: the
\* scrapers' fields, with two companies
ScrapedJobs ==
    { [nome |-> <<"a">>, empresa |-> <<"c">>, link |-> <<"l">>],
      [nome |-> <<"a">>, empresa |-> <<"g">>, link |-> <<"m">>] }

\* the tasks made at a tick with the send task made first
TickTasks_SendFirst == <<"send_new_jobs", "run_scraper">>

\* the tasks schedule.run_pending makes when both jobs are due, in the order
\* start_bot registered the jobs
TickTasks == <<"run_scraper", "send_new_jobs">>

\* the event loop is between two steps of its tasks
LoopFree ==
    /\ \A t \in Tasks : pc[t] \notin SyncPcs
    /\ schPc \notin ScraperSync

\* scheduler_loop calls schedule.run_pending() with both jobs due: each job
\* calls asyncio.create_task, which queues its coroutine
Scheduler_Tick ==
    /\ UNCHANGED notBot
    /\ LoopFree
    /\ ready = <<>>
    /\ pc["scheduled"] = "idle"
    /\ ready' = TickTasks
    /\ scraped' = FALSE
    /\ UNCHANGED <<corpus, sent_jobs, ledgerFile, pc, new_jobs, idx, report,
                   readyDone, failsLeft, delivered, failedIds, okIds,
                   saveFailed, savedKeys, sendLog, schPc>>

\* the event loop starts the run_scraper task
RunScraper_Begin ==
    /\ UNCHANGED notBot
    /\ LoopFree
    /\ ready # <<>>
    /\ Head(ready) = "run_scraper"
    /\ ready' = Tail(ready)
    /\ schPc' = "scraping"
    /\ UNCHANGED <<corpus, sent_jobs, ledgerFile, pc, new_jobs, idx, report,
                   readyDone, failsLeft, delivered, failedIds, okIds,
                   saveFailed, savedKeys, sendLog, scraped>>

\* run_scraper ends without a write: load_keywords gave no keyword
RunScraper_NoKeywords ==
    /\ UNCHANGED notBot
    /\ schPc = "scraping"
    /\ schPc' = "idle"
    /\ scraped' = TRUE
    /\ UNCHANGED <<corpus, sent_jobs, ledgerFile, pc, new_jobs, idx, report,
                   readyDone, failsLeft, delivered, failedIds, okIds,
                   saveFailed, savedKeys, sendLog, ready>>

\* run_all_scrapers reaches save_results, which opens
\* vagas_consolidadas.json for writing: the file is truncated
RunScraper_Open ==
    /\ UNCHANGED notBot
    /\ schPc = "scraping"
    /\ corpus' = HalfCorpus
    /\ schPc' = "writing"
    /\ UNCHANGED <<sent_jobs, ledgerFile, pc, new_jobs, idx, report,
                   readyDone, failsLeft, delivered, failedIds, okIds,
                   saveFailed, savedKeys, sendLog, ready, scraped>>

\* json.dump writes the consolidated list and the file is closed;
\* run_all_scrapers and run_scraper end
RunScraper_Dump ==
    /\ UNCHANGED notBot
    /\ schPc = "writing"
    /\ \E jobs \in BoundedSeq(ScrapedJobs, MaxCorpus) :
         corpus' = WholeCorpus(jobs)
    /\ schPc' = "idle"
    /\ scraped' = TRUE
    /\ UNCHANGED <<sent_jobs, ledgerFile, pc, new_jobs, idx, report,
                   readyDone, failsLeft, delivered, failedIds, okIds,
                   saveFailed, savedKeys, sendLog, ready>>

\* the event loop starts the send_new_jobs task of the tick
Scheduled_Send ==
    /\ ready # <<>>
    /\ Head(ready) = "send_new_jobs"
    /\ ready' = Tail(ready)
    /\ \E channelFound \in BOOLEAN :
         SendNewJobs_Body("scheduled", channelFound)

NextBot ==
    \/ \E t \in Tasks : SendNewJobs_Start(t)
    \/ \E t \in Tasks : SendNewJobs_Announce(t)
    \/ \E t \in Tasks : SendNewJobs_SendEmbed(t)
    \/ \E t \in Tasks : SendNewJobs_Sleep(t)
    \/ \E t \in Tasks : SaveSentJobs_Open(t)
    \/ \E t \in Tasks : SaveSentJobs_Dump(t)
    \/ ProcessRestart

-----------------------------------------------------------------------------
(* indeed_scraper._atomic_write_json(path, data), as main calls it for        *)
(* vagas_indeed.json                                                          *)

\* longest record list handed to _atomic_write_json
MaxSnapshot == 2

\* the records of a snapshot, as IndeedScraper._extract_job_info builds them
IndeedJobs ==
    { [nome |-> <<"a">>, empresa |-> <<"c">>, local |-> None,
       url |-> <<"u">>, resumo |-> None],
      [nome |-> <<"b">>, empresa |-> None, local |-> None,
       url |-> None, resumo |-> None] }

Snapshots == BoundedSeq(IndeedJobs, MaxSnapshot)

AbsentFile == [kind |-> "absent", data |-> <<>>]

\* a file that was opened for writing and not completely written and closed
PartialFile == [kind |-> "partial", data |-> <<>>]

CompleteFile(data) == [kind |-> "complete", data |-> data]

AtomicOff ==
    /\ outFile = AbsentFile
    /\ tmpFile = AbsentFile
    /\ awPc = "idle"
    /\ awData = <<>>
    /\ awPrev = AbsentFile
    /\ awLast = "none"

\* main reaches _atomic_write_json(OUTFILE, unique_jobs)
AtomicWrite_Call ==
    /\ UNCHANGED notAw
    /\ awPc = "idle"
    /\ \E data \in Snapshots : awData' = data
    /\ awPc' = "open"
    /\ awPrev' = outFile
    /\ UNCHANGED <<outFile, tmpFile, awLast>>

\* open(path, "w") in place of open(tmp, "w"): the write goes to path itself
AtomicWrite_OpenPath ==
    /\ UNCHANGED notAw
    /\ awPc = "open"
    /\ outFile' = PartialFile
    /\ awPc' = "dump"
    /\ UNCHANGED <<tmpFile, awData, awPrev, awLast>>

\* open(tmp, "w"): the temporary file is created or truncated; an error
\* leaves _atomic_write_json as an exception
AtomicWrite_OpenTmp ==
    /\ UNCHANGED notAw
    /\ awPc = "open"
    /\ \/ /\ tmpFile' = PartialFile
          /\ awPc' = "dump"
          /\ UNCHANGED awLast
       \/ /\ awPc' = "idle"
          /\ awLast' = "raised"
          /\ UNCHANGED tmpFile
    /\ UNCHANGED <<outFile, awData, awPrev>>

\* json.dump(data, f) and the close of the with block: the temporary file
\* becomes the complete new content, or the write raises and leaves it partial
AtomicWrite_Dump ==
    /\ UNCHANGED notAw
    /\ awPc = "dump"
    /\ \/ /\ tmpFile' = CompleteFile(awData)
          /\ awPc' = "replace"
          /\ UNCHANGED awLast
       \/ /\ awPc' = "idle"
          /\ awLast' = "raised"
          /\ UNCHANGED tmpFile
    /\ UNCHANGED <<outFile, awData, awPrev>>

\* os.replace(tmp, path): path gets the temporary file's content in one step
\* and the temporary name is gone; an error changes nothing
AtomicWrite_Replace ==
    /\ UNCHANGED notAw
    /\ awPc = "replace"
    /\ \/ /\ outFile' = tmpFile
          /\ tmpFile' = AbsentFile
          /\ awLast' = "done"
       \/ /\ awLast' = "raised"
          /\ UNCHANGED <<outFile, tmpFile>>
    /\ awPc' = "idle"
    /\ UNCHANGED <<awData, awPrev>>

\* the process stops somewhere inside _atomic_write_json
AtomicWrite_Crash ==
    /\ UNCHANGED notAw
    /\ awPc # "idle"
    /\ awPc' = "idle"
    /\ awLast' = "crashed"
    /\ UNCHANGED <<outFile, tmpFile, awData, awPrev>>

-----------------------------------------------------------------------------
(* MainScraper.run_all_scrapers *)

\* longest keyword list drawn as input
MaxKeywords == 2

\* longest record list one scrape_jobs call returns to a runner
MaxReturn == 1

\* self.results.keys() in insertion order, the order of the three phases
Platforms == <<"gupy", "indeed", "linkedin">>

PlatformSet == {"gupy", "indeed", "linkedin"}

\* records as GupyScraper._extract_job_info builds them
GupyJobs ==
    { [link |-> <<"l">>, nome |-> <<"a">>, empresa |-> <<"c">>,
       dataPublicacao |-> None],
      [link |-> <<"m">>, nome |-> <<"b">>, empresa |-> None,
       dataPublicacao |-> None] }

\* records as LinkedInScraper._extract_job_info builds them; the second has
\* the link of the first Gupy record
LinkedInJobs ==
    { [jobId |-> <<"j">>, link |-> <<"n">>, nome |-> <<"a">>,
       empresa |-> <<"c">>, dataPublicacao |-> None],
      [jobId |-> None, link |-> <<"l">>, nome |-> <<"a">>,
       empresa |-> <<"c">>, dataPublicacao |-> None] }

\* what a source's scrape_jobs can return to its runner
SourceJobs(p) ==
    CASE p = "gupy" -> GupyJobs
      [] p = "indeed" -> IndeedJobs
      [] p = "linkedin" -> LinkedInJobs

\* bool(v) for a value that is None or a str
Truthy(v) == v # None /\ v # EmptyStr

\* DedupFrom without the test "key not in seen"
RECURSIVE DedupFrom_NoSeen(_, _, _)
DedupFrom_NoSeen(jobs, seen, unique_jobs) ==
    IF jobs = <<>> THEN unique_jobs
    ELSE LET job  == Head(jobs)
             link == Get(job, "link", None)
             key  == IF Truthy(link) THEN link ELSE Get(job, "jobId", None)
         IN  IF ~Truthy(key) THEN DedupFrom_NoSeen(Tail(jobs), seen, unique_jobs)
             ELSE DedupFrom_NoSeen(Tail(jobs), seen \cup {key},
                                   Append(unique_jobs, job))

\* gupy_scraper.deduplicate_jobs, the one main_scraper imports
RECURSIVE DedupFrom(_, _, _)
DedupFrom(jobs, seen, unique_jobs) ==
    IF jobs = <<>> THEN unique_jobs
    ELSE LET job  == Head(jobs)
             link == Get(job, "link", None)
             key  == IF Truthy(link) THEN link ELSE Get(job, "jobId", None)
         IN  IF ~Truthy(key) THEN DedupFrom(Tail(jobs), seen, unique_jobs)
             ELSE IF key \notin seen
                  THEN DedupFrom(Tail(jobs), seen \cup {key},
                                 Append(unique_jobs, job))
                  ELSE DedupFrom(Tail(jobs), seen, unique_jobs)

deduplicate_jobs(jobs) == DedupFrom(jobs, {}, <<>>)

NoResults == [q \in PlatformSet |-> <<>>]

NothingWritten ==
    [gupy |-> AbsentFile, indeed |-> AbsentFile, linkedin |-> AbsentFile,
     consolidadas |-> AbsentFile, relatorio |-> AbsentFile]

OrchOff ==
    /\ orchPc = "idle"
    /\ keywords = <<>>
    /\ kwIdx = 0
    /\ all_jobs = <<>>
    /\ results = NoResults
    /\ timestamps = {}
    /\ written = NothingWritten
    /\ events = <<>>

\* the phase after platform p in the try block of run_all_scrapers
AfterPlatform(p) ==
    CASE p = "gupy" -> "indeed"
      [] p = "indeed" -> "linkedin"
      [] p = "linkedin" -> "save"

\* main() / VagasBot.run_scraper: a new MainScraper and run_all_scrapers on a
\* non-empty keyword list
RunAllScrapers_Call ==
    /\ UNCHANGED notOrch
    /\ orchPc \in {"idle", "done", "raised"}
    /\ \E n \in 1..MaxKeywords : keywords' = [i \in 1..n |-> <<"k">>]
    /\ orchPc' = "gupy"
    /\ kwIdx' = 0
    /\ all_jobs' = <<>>
    /\ results' = NoResults
    /\ timestamps' = {}
    /\ events' = <<>>
    /\ UNCHANGED written

\* run_<p>_scraper is called and builds its scraper object: the constructor
\* call returns, or raises and the exception leaves the runner and reaches
\* the except of run_all_scrapers.  (gupy_scraper.GupyScraper.__init__ has no
\* headless parameter, so the call GupyScraper(headless=...) of line 35 is
\* one that raises.)
Runner_Begin(p) ==
    /\ UNCHANGED notOrch
    /\ orchPc = p
    /\ kwIdx = 0
    /\ \/ /\ kwIdx' = 1
          /\ all_jobs' = <<>>
          /\ events' = Append(events, <<p, "call">>)
          /\ UNCHANGED orchPc
       \/ /\ orchPc' = "save_partial"
          /\ events' = events \o << <<p, "call">>, <<p, "raise">> >>
          /\ UNCHANGED <<kwIdx, all_jobs>>
    /\ UNCHANGED <<keywords, results, timestamps, written>>

\* one turn of the runner's keyword loop: scraper.scrape_jobs(term=keyword)
\* returns a list that is appended to all_jobs, or raises
Runner_Keyword(p) ==
    /\ UNCHANGED notOrch
    /\ orchPc = p
    /\ kwIdx \in 1..Len(keywords)
    /\ \/ \E jobs \in BoundedSeq(SourceJobs(p), MaxReturn) :
            /\ all_jobs' = all_jobs \o jobs
            /\ kwIdx' = kwIdx + 1
            /\ UNCHANGED <<orchPc, events>>
       \/ /\ orchPc' = "save_partial"
          /\ events' = Append(events, <<p, "raise">>)
          /\ UNCHANGED <<kwIdx, all_jobs>>
    /\ UNCHANGED <<keywords, results, timestamps, written>>

\* the end of the runner: deduplicate, store the result and the timestamps
Runner_Finish(p) ==
    /\ UNCHANGED notOrch
    /\ orchPc = p
    /\ kwIdx = Len(keywords) + 1
    /\ results' = [results EXCEPT ![p] = deduplicate_jobs(all_jobs)]
    /\ timestamps' = timestamps \cup {p}
    /\ events' = Append(events, <<p, "return">>)
    /\ orchPc' = AfterPlatform(p)
    /\ kwIdx' = 0
    /\ all_jobs' = <<>>
    /\ UNCHANGED <<keywords, written>>

\* save_results with the consolidated list written as concatenated, without
\* deduplicate_jobs
SaveResults_NoDedup ==
    /\ UNCHANGED notOrch
    /\ orchPc \in {"save", "save_partial"}
    /\ LET consolidated_jobs ==
               results["gupy"] \o results["indeed"] \o results["linkedin"]
           relatorio ==
               [total_vagas |-> Len(consolidated_jobs),
                timestamps |-> timestamps,
                resumo_por_plataforma |->
                    [q \in PlatformSet |-> Len(results[q])]]
       IN  written' = [gupy |-> CompleteFile(results["gupy"]),
                       indeed |-> CompleteFile(results["indeed"]),
                       linkedin |-> CompleteFile(results["linkedin"]),
                       consolidadas |-> CompleteFile(consolidated_jobs),
                       relatorio |-> CompleteFile(relatorio)]
    /\ events' = Append(events, <<"save_results", "call">>)
    /\ orchPc' = IF orchPc = "save" THEN "done" ELSE "raised"
    /\ UNCHANGED <<keywords, kwIdx, all_jobs, results, timestamps>>

\* save_results, called at the end of the try block (line 181) or from the
\* except block (line 200), which then re-raises
SaveResults ==
    /\ UNCHANGED notOrch
    /\ orchPc \in {"save", "save_partial"}
    /\ LET consolidated_jobs ==
               deduplicate_jobs(results["gupy"] \o results["indeed"] \o
                                results["linkedin"])
           relatorio ==
               [total_vagas |-> Len(consolidated_jobs),
                timestamps |-> timestamps,
                resumo_por_plataforma |->
                    [q \in PlatformSet |-> Len(results[q])]]
       IN  written' = [gupy |-> CompleteFile(results["gupy"]),
                       indeed |-> CompleteFile(results["indeed"]),
                       linkedin |-> CompleteFile(results["linkedin"]),
                       consolidadas |-> CompleteFile(consolidated_jobs),
                       relatorio |-> CompleteFile(relatorio)]
    /\ events' = Append(events, <<"save_results", "call">>)
    /\ orchPc' = IF orchPc = "save" THEN "done" ELSE "raised"
    /\ UNCHANGED <<keywords, kwIdx, all_jobs, results, timestamps>>

-----------------------------------------------------------------------------
(* scrape_jobs: values and the per-card processing of each source *)

\* largest max_pages drawn as input
MaxPagesArg == 2

\* most cards on one result page of a scrape_jobs call
MaxCards == 1

\* most cards on a page whose card loop is looked at on its own
MaxPageCards == 2

\* the default of the parameter max_days_old, which every caller passes
max_days_old == 3

\* s[i..] starts with w
StartsAt(s, i, w) ==
    /\ i + Len(w) - 1 <= Len(s)
    /\ \A k \in 1..Len(w) : s[i + k - 1] = w[k]

\* the Python test "w in s" for strings
Contains(s, w) == \E i \in 1..(Len(s) + 1) : StartsAt(s, i, w)

\* characters that are not \w for the re module
NonWordChars == {" ", "-", "/", "(", ")"}

\* re.search(r"\bw\b", s) for a word w made of \w characters
WordMatch(s, w) ==
    \E i \in 1..Len(s) :
        /\ StartsAt(s, i, w)
        /\ i = 1 \/ s[i - 1] \in NonWordChars
        /\ i + Len(w) - 1 = Len(s) \/ s[i + Len(w)] \in NonWordChars

\* v or '' for a value that is None or a str
OrEmpty(v) == IF Truthy(v) THEN v ELSE EmptyStr

\* datetime.fromisoformat of a stored dataPublicacao, as the age in days of
\* the instant it denotes
DaysOld(iso) ==
    CASE iso = <<"1">> -> 1
      [] iso = <<"5">> -> 5
      [] OTHER -> 0

\* job_date < cutoff_date, with cutoff_date = now - max_days_old days
OlderThanCutoff(iso) == DaysOld(iso) > max_days_old

\* what _extract_job_info gives for a card: no dict (None, or an exception
\* that the card loop swallows), or a dict
NoInfo == [kind |-> "none"]

Info(d) == [kind |-> "info", info |-> d]

GupyInfo(nome, data) ==
    Info([link |-> <<"l">>, nome |-> nome, empresa |-> <<"c">>,
          dataPublicacao |-> data])

GupyCards ==
    { NoInfo,
      GupyInfo(<<"a">>, None),
      GupyInfo(<<"a">>, <<"1">>),
      GupyInfo(<<"a">>, <<"5">>),
      GupyInfo(<<"D", " ", "S", "r">>, <<"5">>),
      GupyInfo(None, <<"5">>),
      GupyInfo(EmptyStr, None) }

\* IndeedScraper._extract_job_info returns None when nome is empty
IndeedCards ==
    { NoInfo } \cup { Info(j) : j \in IndeedJobs } \cup
    { Info([nome |-> <<"D", " ", "S", "r">>, empresa |-> None, local |-> None,
            url |-> <<"u">>, resumo |-> None]) }

LinkedInInfo(nome, data) ==
    Info([jobId |-> <<"j">>, link |-> <<"n">>, nome |-> nome,
          empresa |-> <<"c">>, dataPublicacao |-> data])

\* nome is the text of the title element or of the link, '' when it has none
LinkedInCards ==
    { NoInfo,
      LinkedInInfo(<<"a">>, None),
      LinkedInInfo(<<"a">>, <<"1">>),
      LinkedInInfo(<<"a">>, <<"5">>),
      LinkedInInfo(EmptyStr, None) }

\* GupyPage with the date check ahead of the seniority filter: an old
\* record marks the page whatever its title
RECURSIVE GupyPage_DateFirst(_, _, _)
GupyPage_DateFirst(cards, page_jobs, has_old) ==
    IF cards = <<>> THEN [page_jobs |-> page_jobs, has_old |-> has_old]
    ELSE LET card == Head(cards)
             rest == Tail(cards)
         IN  IF card.kind # "info" \/ ~Truthy(card.info.link)
             THEN GupyPage_DateFirst(rest, page_jobs, has_old)
             ELSE LET job_info == card.info
                      nome == lower(OrEmpty(job_info.nome))
                  IN  IF job_info.nome = None
                      THEN GupyPage_DateFirst(rest, page_jobs, has_old)
                      ELSE IF Truthy(job_info.dataPublicacao)
                              /\ OlderThanCutoff(job_info.dataPublicacao)
                      THEN GupyPage_DateFirst(rest, page_jobs, TRUE)
                      ELSE IF Contains(nome, <<"s", "e", "n", "i", "o", "r">>)
                              \/ Contains(nome, <<"s", "r">>)
                      THEN GupyPage_DateFirst(rest, page_jobs, has_old)
                      ELSE GupyPage_DateFirst(rest, Append(page_jobs, job_info),
                                              has_old)

\* GupyPage with "if job_info['dataPublicacao']" left out: a record without
\* a date goes the way of an old one
RECURSIVE GupyPage_UndatedOld(_, _, _)
GupyPage_UndatedOld(cards, page_jobs, has_old) ==
    IF cards = <<>> THEN [page_jobs |-> page_jobs, has_old |-> has_old]
    ELSE LET card == Head(cards)
             rest == Tail(cards)
         IN  IF card.kind # "info" \/ ~Truthy(card.info.link)
             THEN GupyPage_UndatedOld(rest, page_jobs, has_old)
             ELSE LET job_info == card.info
                      nome == lower(OrEmpty(job_info.nome))
                  IN  IF Contains(nome, <<"s", "e", "n", "i", "o", "r">>)
                         \/ Contains(nome, <<"s", "r">>)
                      THEN GupyPage_UndatedOld(rest, page_jobs, has_old)
                      ELSE IF job_info.nome = None
                      THEN GupyPage_UndatedOld(rest, page_jobs, has_old)
                      ELSE IF ~Truthy(job_info.dataPublicacao)
                              \/ OlderThanCutoff(job_info.dataPublicacao)
                      THEN GupyPage_UndatedOld(rest, page_jobs, TRUE)
                      ELSE GupyPage_UndatedOld(rest,
                                               Append(page_jobs, job_info),
                                               has_old)

\* GupyScraper.scrape_jobs, the loop "for card in job_cards": gives the
\* page's page_jobs and has_old_job_on_page.  Formatting job_info['nome'][:50]
\* for the print raises for a None nome, and the except skips the card before
\* anything is recorded for it
RECURSIVE GupyPage(_, _, _)
GupyPage(cards, page_jobs, has_old) ==
    IF cards = <<>> THEN [page_jobs |-> page_jobs, has_old |-> has_old]
    ELSE LET card == Head(cards)
             rest == Tail(cards)
         IN  IF card.kind # "info" \/ ~Truthy(card.info.link)
             THEN GupyPage(rest, page_jobs, has_old)
             ELSE LET job_info == card.info
                      nome == lower(OrEmpty(job_info.nome))
                  IN  IF Contains(nome, <<"s", "e", "n", "i", "o", "r">>)
                         \/ Contains(nome, <<"s", "r">>)
                      THEN GupyPage(rest, page_jobs, has_old)
                      ELSE IF job_info.nome = None
                      THEN GupyPage(rest, page_jobs, has_old)
                      ELSE IF Truthy(job_info.dataPublicacao)
                              /\ OlderThanCutoff(job_info.dataPublicacao)
                      THEN GupyPage(rest, page_jobs, TRUE)
                      ELSE GupyPage(rest, Append(page_jobs, job_info), has_old)

\* IndeedScraper.scrape_jobs, the loop over cards with senior_filter=True
RECURSIVE IndeedPage(_, _)
IndeedPage(cards, page_jobs) ==
    IF cards = <<>> THEN page_jobs
    ELSE LET card == Head(cards)
             rest == Tail(cards)
         IN  IF card.kind # "info" THEN IndeedPage(rest, page_jobs)
             ELSE LET nome_lower == lower(OrEmpty(card.info.nome))
                  IN  IF \/ WordMatch(nome_lower, <<"s", "e", "n", "i", "o", "r">>)
                         \/ WordMatch(nome_lower, <<"s", "ê", "n", "i", "o", "r">>)
                         \/ WordMatch(nome_lower, <<"s", "r">>)
                      THEN IndeedPage(rest, page_jobs)
                      ELSE IndeedPage(rest, Append(page_jobs, card.info))

\* LinkedInScraper._collect_cards_current_page: a dated record older than
\* the cutoff is skipped, every other extracted record is kept
RECURSIVE LinkedInPage(_, _)
LinkedInPage(cards, out) ==
    IF cards = <<>> THEN out
    ELSE LET card == Head(cards)
             rest == Tail(cards)
         IN  IF card.kind # "info" THEN LinkedInPage(rest, out)
             ELSE IF Truthy(card.info.dataPublicacao)
                     /\ OlderThanCutoff(card.info.dataPublicacao)
             THEN LinkedInPage(rest, out)
             ELSE LinkedInPage(rest, Append(out, card.info))

-----------------------------------------------------------------------------
(* scrape_jobs: what a finished page held, for the history variables *)

\* the seniority filter of GupyScraper.scrape_jobs
SeniorTitle(nome) ==
    \/ Contains(lower(OrEmpty(nome)), <<"s", "e", "n", "i", "o", "r">>)
    \/ Contains(lower(OrEmpty(nome)), <<"s", "r">>)

\* the card gave a record of the source: a dict, and for Gupy one with a
\* link and a title that the seniority filter lets through
IsRecord(src, card) ==
    /\ card.kind = "info"
    /\ src = "gupy" => /\ Truthy(card.info.link)
                       /\ card.info.nome # None
                       /\ ~SeniorTitle(card.info.nome)

\* the record has a posting date, and it is before cutoff_date
OldRecord(src, card) ==
    /\ IsRecord(src, card)
    /\ Truthy(card.info.dataPublicacao)
    /\ OlderThanCutoff(card.info.dataPublicacao)

HasOldRecord(src, cards) == \E i \in DOMAIN cards : OldRecord(src, cards[i])

\* no card at all, or _extract_job_info gave no dict for any card
NoParseableRecord(cards) == \A i \in DOMAIN cards : cards[i].kind # "info"

\* a history mark: the first value of n at which cond held
FirstAt(mark, cond, n) == IF mark = -1 /\ cond THEN n ELSE mark

-----------------------------------------------------------------------------
(* scrape_jobs: the calls *)

Sources == {"gupy", "indeed", "linkedin"}

CardsOf(src) ==
    CASE src = "gupy" -> GupyCards
      [] src = "indeed" -> IndeedCards
      [] src = "linkedin" -> LinkedInCards

ScrapeOff ==
    /\ scSrc = "none"
    /\ scPc = "idle"
    /\ max_pages = 0
    /\ page = 0
    /\ scJobs = <<>>
    /\ found_old_job = FALSE
    /\ driverOpen = FALSE
    /\ scExit = "return"
    /\ scOut = "none"
    /\ requests = 0
    /\ reloads = 0
    /\ staleAt = -1
    /\ emptyAt = -1

\* a caller (a runner of main_scraper or a main of the scraper modules) calls
\* scrape_jobs of one source
ScrapeJobs_Call ==
    /\ UNCHANGED notSc
    /\ scPc = "idle"
    /\ \E src \in Sources : scSrc' = src
    /\ \E mp \in 1..MaxPagesArg : max_pages' = mp
    /\ scPc' = "setup"
    /\ page' = 0
    /\ scJobs' = <<>>
    /\ found_old_job' = FALSE
    /\ scExit' = "return"
    /\ scOut' = "none"
    /\ requests' = 0
    /\ reloads' = 0
    /\ staleAt' = -1
    /\ emptyAt' = -1
    /\ UNCHANGED driverOpen

\* self.driver = self._setup_driver(), before the try: the session opens, or
\* webdriver.Chrome raises and the call ends with the exception
ScrapeJobs_Setup ==
    /\ UNCHANGED notSc
    /\ scPc = "setup"
    /\ \/ /\ driverOpen' = TRUE
          /\ scPc' = IF scSrc = "gupy" THEN "load" ELSE "loop"
          /\ UNCHANGED scOut
       \/ /\ scPc' = "idle"
          /\ scOut' = "raised"
          /\ UNCHANGED driverOpen
    /\ UNCHANGED <<scSrc, max_pages, page, scJobs, found_old_job, scExit,
                   requests, reloads, staleAt, emptyAt>>

\* GupyScraper.scrape_jobs, lines 185-202: the search URL is loaded and the
\* wait for cards or the pagination bar ends, times out (return []) or the
\* load raises
Gupy_Load ==
    /\ UNCHANGED notSc
    /\ scPc = "load"
    /\ requests' = requests + 1
    /\ \/ /\ scPc' = "loop"
          /\ page' = 1
          /\ UNCHANGED scExit
       \/ /\ scPc' = "exit"
          /\ scExit' = "return"
          /\ UNCHANGED page
       \/ /\ scPc' = "exit"
          /\ scExit' = "raise"
          /\ UNCHANGED page
    /\ UNCHANGED <<scSrc, max_pages, scJobs, found_old_job, driverOpen, scOut,
                   reloads, staleAt, emptyAt>>

\* GupyScraper.scrape_jobs, one turn of the while loop (lines 203-256): the
\* cards of the current page are processed; unless the page is empty or held
\* an old record, the next-page button is looked up and clicked
Gupy_Page ==
    /\ UNCHANGED notSc
    /\ scSrc = "gupy"
    /\ scPc = "loop"
    /\ page <= max_pages /\ ~found_old_job
    /\ \E job_cards \in BoundedSeq(GupyCards, MaxCards) :
         /\ staleAt' = FirstAt(staleAt, HasOldRecord("gupy", job_cards),
                               requests)
         /\ emptyAt' = FirstAt(emptyAt, NoParseableRecord(job_cards), requests)
         /\ IF job_cards = <<>>
            THEN /\ scPc' = "exit"
                 /\ UNCHANGED <<page, scJobs, found_old_job, requests>>
            ELSE
              LET r == GupyPage(job_cards, <<>>, FALSE) IN
              /\ found_old_job' = r.has_old
              /\ scJobs' = scJobs \o r.page_jobs
              /\ IF r.has_old
                 THEN /\ scPc' = "exit"
                      /\ UNCHANGED <<page, requests>>
                 ELSE \/ /\ requests' = requests + 1
                         /\ page' = page + 1
                         /\ UNCHANGED scPc
                      \/ /\ scPc' = "exit"
                         /\ UNCHANGED <<page, requests>>
    /\ UNCHANGED <<scSrc, max_pages, driverOpen, scExit, scOut, reloads>>

\* IndeedScraper.scrape_jobs, one turn of "for page in range(max_pages)"
\* (lines 232-291): the page URL is loaded; a timeout goes on to the next
\* page, a page without cards ends the loop, otherwise the cards are processed
Indeed_Page ==
    /\ UNCHANGED notSc
    /\ scSrc = "indeed"
    /\ scPc = "loop"
    /\ page < max_pages
    /\ requests' = requests + 1
    /\ \/ /\ page' = page + 1
          /\ UNCHANGED <<scPc, scJobs, scExit, emptyAt>>
       \/ /\ scPc' = "exit"
          /\ scExit' = "raise"
          /\ UNCHANGED <<page, scJobs, emptyAt>>
       \/ \E cards \in BoundedSeq(IndeedCards, MaxCards) :
            /\ emptyAt' = FirstAt(emptyAt, NoParseableRecord(cards),
                                  requests + 1)
            /\ IF cards = <<>>
               THEN /\ scPc' = "exit"
                    /\ UNCHANGED <<page, scJobs, scExit>>
               ELSE /\ scJobs' = scJobs \o IndeedPage(cards, <<>>)
                    /\ page' = page + 1
                    /\ UNCHANGED <<scPc, scExit>>
    /\ UNCHANGED <<scSrc, max_pages, found_old_job, driverOpen, scOut,
                   reloads, staleAt>>

\* LinkedInScraper.scrape_jobs, one turn of "for page in range(max_pages)"
\* (lines 391-418): the page URL is loaded; each of the two
\* _ensure_not_on_legal calls loads it again when the browser was sent to a
\* /legal/ or consent page; without a result list the turn ends at once
LinkedIn_Page ==
    /\ UNCHANGED notSc
    /\ scSrc = "linkedin"
    /\ scPc = "loop"
    /\ page < max_pages
    /\ requests' = requests + 1
    /\ \E legal1 \in {0, 1} :
         \/ /\ reloads' = reloads + legal1
            /\ page' = page + 1
            /\ UNCHANGED <<scPc, scJobs, scExit, staleAt, emptyAt>>
         \/ /\ legal1 = 0
            /\ scPc' = "exit"
            /\ scExit' = "raise"
            /\ UNCHANGED <<page, scJobs, reloads, staleAt, emptyAt>>
         \/ \E legal2 \in {0, 1}, cards \in BoundedSeq(LinkedInCards, MaxCards) :
            \E total \in {0, Len(cards)} :
              LET page_jobs == LinkedInPage(cards, <<>>) IN
              /\ reloads' = reloads + legal1 + legal2
              /\ staleAt' = FirstAt(staleAt, HasOldRecord("linkedin", cards),
                                    requests + 1)
              /\ emptyAt' = FirstAt(emptyAt, NoParseableRecord(cards),
                                    requests + 1)
              /\ scJobs' = scJobs \o page_jobs
              /\ IF total = 0 /\ Len(page_jobs) = 0
                 THEN /\ scPc' = "exit"
                      /\ UNCHANGED page
                 ELSE /\ page' = page + 1
                      /\ UNCHANGED scPc
              /\ UNCHANGED scExit
    /\ UNCHANGED <<scSrc, max_pages, found_old_job, driverOpen, scOut>>

\* the loop condition fails: the while of Gupy, the exhausted range of Indeed
\* and LinkedIn; the function goes to its return
ScrapeJobs_LoopEnd ==
    /\ UNCHANGED notSc
    /\ scPc = "loop"
    /\ IF scSrc = "gupy" THEN page > max_pages \/ found_old_job
                         ELSE page >= max_pages
    /\ scPc' = "exit"
    /\ UNCHANGED <<scSrc, max_pages, page, scJobs, found_old_job, driverOpen,
                   scExit, scOut, requests, reloads, staleAt, emptyAt>>

\* ScrapeJobs_Exit with driver.quit() before the return statement instead of
\* in a finally block: an exception leaves the call with the session open
ScrapeJobs_Exit_QuitOnReturn ==
    /\ UNCHANGED notSc
    /\ scPc = "exit"
    /\ driverOpen' = (scExit = "raise")
    /\ scOut' = IF scExit = "raise" THEN "raised" ELSE "returned"
    /\ scPc' = "idle"
    /\ UNCHANGED <<scSrc, max_pages, page, scJobs, found_old_job, scExit,
                   requests, reloads, staleAt, emptyAt>>

\* the finally block: self.driver.quit(), then the return or the exception.
\* Gupy's return after the initial timeout gives []
ScrapeJobs_Exit ==
    /\ UNCHANGED notSc
    /\ scPc = "exit"
    /\ driverOpen' = FALSE
    /\ scOut' = IF scExit = "raise" THEN "raised" ELSE "returned"
    /\ scPc' = "idle"
    /\ UNCHANGED <<scSrc, max_pages, page, scJobs, found_old_job, scExit,
                   requests, reloads, staleAt, emptyAt>>

-----------------------------------------------------------------------------
(* The deduplication functions, applied to a list and to their own output *)

\* longest record list drawn as the argument of a deduplication function
MaxDedup == 3

\* IndeedScraper.site, the default of the constructor
Site ==
    <<"h", "t", "t", "p", "s", ":", "/", "/", "b", "r", ".", "i", "n", "d",
      "e", "e", "d", ".", "c", "o", "m">>

\* the literals _normalize_url and _deduplicate_jobs look for
ViewJobMark ==
    <<"i", "n", "d", "e", "e", "d", ".", "c", "o", "m", "/", "v", "i", "e",
      "w", "j", "o", "b">>

JkMark == <<"j", "k", "=">>

ClkMark ==
    <<"i", "n", "d", "e", "e", "d", ".", "c", "o", "m", "/", "r", "c", "/",
      "c", "l", "k">>

\* URLs as IndeedScraper._extract_job_info builds them: site + "/viewjob?jk="
\* + data-jk, or site + href
UrlView1 == Site \o <<"/", "v", "i", "e", "w", "j", "o", "b", "?", "j", "k", "=", "1">>

UrlView2 == Site \o <<"/", "v", "i", "e", "w", "j", "o", "b", "?", "j", "k", "=", "2">>

UrlClk == Site \o <<"/", "r", "c", "/", "c", "l", "k", "?", "j", "k", "=", "1">>

UrlAd == Site \o <<"/", "a", "d", "?", "m", "o", "=", "r", "#", "x">>

UrlAdBare == Site \o <<"/", "a", "d">>

IndeedRecord(nome, empresa, url) ==
    [nome |-> nome, empresa |-> empresa, local |-> None, url |-> url,
     resumo |-> None]

\* Gupy records: two with the same title and company under different links,
\* and one with the link of the first
DedupGupyJobs ==
    { [link |-> <<"l">>, nome |-> <<"a">>, empresa |-> <<"c">>,
       dataPublicacao |-> None],
      [link |-> <<"m">>, nome |-> <<"a">>, empresa |-> <<"c">>,
       dataPublicacao |-> None],
      [link |-> <<"l">>, nome |-> <<"b">>, empresa |-> None,
       dataPublicacao |-> None] }

\* Indeed records: URLs with jk, a generic redirect URL, a URL with query
\* and fragment and the same URL without them, and no URL
DedupIndeedJobs ==
    { IndeedRecord(<<"a">>, <<"c">>, UrlView1),
      IndeedRecord(<<"a">>, <<"c">>, UrlView2),
      IndeedRecord(<<"a">>, <<"c">>, UrlClk),
      IndeedRecord(<<"b">>, None, UrlAd),
      IndeedRecord(<<"b">>, None, UrlAdBare),
      IndeedRecord(<<"A", " ">>, <<"c">>, None),
      IndeedRecord(<<"a">>, <<"c">>, None) }

\* the records the callers of each function hand it: gupy_scraper's
\* deduplicate_jobs gets the records of all three sources from main_scraper,
\* the other two get the records of their own module's scraper
DedupJobs(fn) ==
    CASE fn = "gupy" ->
             DedupGupyJobs \cup LinkedInJobs \cup
             { IndeedRecord(<<"a">>, <<"c">>, UrlView1),
               IndeedRecord(<<"b">>, None, None) }
      [] fn = "linkedin" ->
             LinkedInJobs \cup
             { [jobId |-> <<"j">>, link |-> <<"l">>, nome |-> <<"b">>,
                empresa |-> None, dataPublicacao |-> None] }
      [] fn = "indeed" -> DedupIndeedJobs

\* linkedin_scraper.deduplicate_jobs
RECURSIVE LinkedInDedupFrom(_, _, _)
LinkedInDedupFrom(jobs, seen, out) ==
    IF jobs = <<>> THEN out
    ELSE LET job  == Head(jobs)
             link == Get(job, "link", None)
             key  == IF Truthy(link) THEN link ELSE Get(job, "jobId", None)
         IN  IF Truthy(key) /\ key \notin seen
             THEN LinkedInDedupFrom(Tail(jobs), seen \cup {key},
                                    Append(out, job))
             ELSE LinkedInDedupFrom(Tail(jobs), seen, out)

LinkedIn_deduplicate_jobs(jobs) == LinkedInDedupFrom(jobs, {}, <<>>)

\* the position of the first "?" or "#" of u, Len(u) + 1 without one
FirstSep(u) ==
    IF \E i \in DOMAIN u : u[i] \in {"?", "#"}
    THEN CHOOSE i \in DOMAIN u :
             /\ u[i] \in {"?", "#"}
             /\ \A k \in 1..(i - 1) : u[k] \notin {"?", "#"}
    ELSE Len(u) + 1

\* _normalize_url that cuts off only what follows the last "?" or "#"
_normalize_url_LastSep(u) ==
    LET seps == { i \in DOMAIN u : u[i] \in {"?", "#"} }
        last == CHOOSE i \in seps : \A k \in seps : k <= i
    IN  IF ~Truthy(u) THEN None
        ELSE IF Contains(u, ViewJobMark) /\ Contains(u, JkMark) THEN u
        ELSE IF seps = {} THEN u
        ELSE SubSeq(u, 1, last - 1)

\* indeed_scraper._normalize_url: urlsplit, then urlunsplit of scheme, netloc
\* and path with empty query and fragment; for a URL with a lower-case scheme
\* and a netloc that is the URL up to its first "?" or "#"
_normalize_url(u) ==
    IF ~Truthy(u) THEN None
    ELSE IF Contains(u, ViewJobMark) /\ Contains(u, JkMark) THEN u
    ELSE SubSeq(u, 1, FirstSep(u) - 1)

\* (j.get(field) or '').strip().lower()
KeyPart(j, field) == lower(strip(OrEmpty(Get(j, field, None))))

\* the key _deduplicate_jobs builds for a record
IndeedKey(j) ==
    LET url_norm == _normalize_url(Get(j, "url", None))
        name == <<"n", "a", "m", "e", ":">> \o KeyPart(j, "nome") \o <<"|">>
                    \o KeyPart(j, "empresa")
    IN  IF Truthy(url_norm) /\ Contains(url_norm, ClkMark) THEN name
        ELSE IF Truthy(url_norm) THEN <<"u", "r", "l", ":">> \o url_norm
        ELSE name \o <<"|">> \o KeyPart(j, "local")

\* the record _deduplicate_jobs stores: {**j, "url": url_norm} when the
\* normalised URL is not empty
Stored(j) ==
    LET url_norm == _normalize_url(Get(j, "url", None))
    IN  IF Truthy(url_norm) THEN [j EXCEPT !.url = url_norm] ELSE j

\* indeed_scraper._deduplicate_jobs
RECURSIVE IndeedDedupFrom(_, _, _)
IndeedDedupFrom(jobs, seen, out) ==
    IF jobs = <<>> THEN out
    ELSE LET j == Head(jobs)
             key == IndeedKey(j)
         IN  IF key \notin seen
             THEN IndeedDedupFrom(Tail(jobs), seen \cup {key},
                                  Append(out, Stored(j)))
             ELSE IndeedDedupFrom(Tail(jobs), seen, out)

_deduplicate_jobs(jobs) == IndeedDedupFrom(jobs, {}, <<>>)

DedupFns == {"gupy", "linkedin", "indeed"}

Dedup(fn, jobs) ==
    CASE fn = "gupy" -> deduplicate_jobs(jobs)
      [] fn = "linkedin" -> LinkedIn_deduplicate_jobs(jobs)
      [] fn = "indeed" -> _deduplicate_jobs(jobs)

DedupOff ==
    /\ ddFn = "none"
    /\ ddPc = "idle"
    /\ ddIn = <<>>
    /\ ddOut = <<>>
    /\ ddOut2 = <<>>

\* a caller has a record list and calls a deduplication function on it
Dedup_Call ==
    /\ UNCHANGED notDd
    /\ ddPc = "idle"
    /\ \E fn \in DedupFns :
         /\ ddFn' = fn
         /\ \E jobs \in BoundedSeq(DedupJobs(fn), MaxDedup) : ddIn' = jobs
    /\ ddPc' = "called"
    /\ ddOut' = <<>>
    /\ ddOut2' = <<>>

\* the function returns
Dedup_Apply ==
    /\ UNCHANGED notDd
    /\ ddPc = "called"
    /\ ddOut' = Dedup(ddFn, ddIn)
    /\ ddPc' = "once"
    /\ UNCHANGED <<ddFn, ddIn, ddOut2>>

\* the function is applied to what it returned, as save_results does with
\* the lists the runners have deduplicated
Dedup_Again ==
    /\ UNCHANGED notDd
    /\ ddPc = "once"
    /\ ddOut2' = Dedup(ddFn, ddOut)
    /\ ddPc' = "twice"
    /\ UNCHANGED <<ddFn, ddIn, ddOut>>

-----------------------------------------------------------------------------
(* The card loop of one result page, on its own *)

PageOff ==
    /\ pgSrc = "none"
    /\ pgPc = "idle"
    /\ pgCards = <<>>
    /\ pgJobs = <<>>
    /\ pgOld = FALSE

\* a turn of a page loop has found the cards of its page (find_elements)
Page_Cards ==
    /\ UNCHANGED notPg
    /\ pgPc \in {"idle", "done"}
    /\ \E src \in Sources :
         /\ pgSrc' = src
         /\ \E cards \in BoundedSeq(CardsOf(src), MaxPageCards) :
              /\ cards # <<>>
              /\ pgCards' = cards
    /\ pgPc' = "cards"
    /\ pgJobs' = <<>>
    /\ pgOld' = FALSE

\* GupyScraper.scrape_jobs, lines 208-239: the card loop, then
\* "if has_old_job_on_page: found_old_job = True"
Page_Gupy ==
    /\ UNCHANGED notPg
    /\ pgSrc = "gupy"
    /\ pgPc = "cards"
    /\ LET r == GupyPage(pgCards, <<>>, FALSE) IN
         /\ pgJobs' = r.page_jobs
         /\ pgOld' = r.has_old
    /\ pgPc' = "done"
    /\ UNCHANGED <<pgSrc, pgCards>>

\* IndeedScraper.scrape_jobs, lines 265-281: the card loop
Page_Indeed ==
    /\ UNCHANGED notPg
    /\ pgSrc = "indeed"
    /\ pgPc = "cards"
    /\ pgJobs' = IndeedPage(pgCards, <<>>)
    /\ pgPc' = "done"
    /\ UNCHANGED <<pgSrc, pgCards, pgOld>>

\* LinkedInScraper._collect_cards_current_page, lines 366-383; scrape_jobs
\* keeps no flag about old records
Page_LinkedIn ==
    /\ UNCHANGED notPg
    /\ pgSrc = "linkedin"
    /\ pgPc = "cards"
    /\ pgJobs' = LinkedInPage(pgCards, <<>>)
    /\ pgPc' = "done"
    /\ UNCHANGED <<pgSrc, pgCards, pgOld>>

-----------------------------------------------------------------------------
(* Specifications *)

Init == InitBot /\ AtomicOff /\ OrchOff /\ ScrapeOff /\ PageOff /\ DedupOff

Spec == Init /\ [][NextBot]_vars

\* the running bot without process stops: the schedule keeps starting
\* send_new_jobs, the channel is found again and again, and every pending
\* await returns
NextRun ==
    \/ \E t \in Tasks : SendNewJobs_Start(t)
    \/ \E t \in Tasks : SendNewJobs_Announce(t)
    \/ \E t \in Tasks : SendNewJobs_SendEmbed(t)
    \/ \E t \in Tasks : SendNewJobs_Sleep(t)
    \/ \E t \in Tasks : SaveSentJobs_Open(t)
    \/ \E t \in Tasks : SaveSentJobs_Dump(t)

SpecLive ==
    /\ Init
    /\ [][NextRun]_vars
    /\ WF_vars(SendNewJobs_StartWith("scheduled", TRUE))
    /\ \A t \in Tasks : /\ WF_vars(SendNewJobs_Announce(t))
                        /\ WF_vars(SendNewJobs_SendEmbed(t))
                        /\ WF_vars(SendNewJobs_Sleep(t))
                        /\ WF_vars(SaveSentJobs_Open(t))
                        /\ WF_vars(SaveSentJobs_Dump(t))

InitAtomic ==
    BotOff /\ AtomicOff /\ OrchOff /\ ScrapeOff /\ PageOff /\ DedupOff

NextAtomic ==
    \/ AtomicWrite_Call
    \/ AtomicWrite_OpenTmp
    \/ AtomicWrite_Dump
    \/ AtomicWrite_Replace
    \/ AtomicWrite_Crash

SpecAtomic == InitAtomic /\ [][NextAtomic]_vars

\* the running bot with its schedule: on_ready's send_new_jobs, and at each
\* tick the run_scraper task and the send_new_jobs task
InitSched ==
    BotOff /\ AtomicOff /\ OrchOff /\ ScrapeOff /\ PageOff /\ DedupOff

NextSched ==
    \/ SendNewJobs_Start("on_ready")
    \/ Scheduler_Tick
    \/ RunScraper_Begin
    \/ RunScraper_NoKeywords
    \/ RunScraper_Open
    \/ RunScraper_Dump
    \/ Scheduled_Send
    \/ \E t \in Tasks : SendNewJobs_Announce(t)
    \/ \E t \in Tasks : SendNewJobs_SendEmbed(t)
    \/ \E t \in Tasks : SendNewJobs_Sleep(t)
    \/ \E t \in Tasks : SaveSentJobs_Open(t)
    \/ \E t \in Tasks : SaveSentJobs_Dump(t)

SpecSched == InitSched /\ [][NextSched]_vars

\* the same with process stops and restarts
NextSchedRestart ==
    \/ NextSched
    \/ ProcessRestart

SpecSchedRestart == InitSched /\ [][NextSchedRestart]_vars

InitOrch ==
    BotOff /\ AtomicOff /\ OrchOff /\ ScrapeOff /\ PageOff /\ DedupOff

NextOrch ==
    \/ RunAllScrapers_Call
    \/ \E p \in PlatformSet : Runner_Begin(p)
    \/ \E p \in PlatformSet : Runner_Keyword(p)
    \/ \E p \in PlatformSet : Runner_Finish(p)
    \/ SaveResults

SpecOrch == InitOrch /\ [][NextOrch]_vars

InitScrape ==
    BotOff /\ AtomicOff /\ OrchOff /\ ScrapeOff /\ PageOff /\ DedupOff

NextScrape ==
    \/ ScrapeJobs_Call
    \/ ScrapeJobs_Setup
    \/ Gupy_Load
    \/ Gupy_Page
    \/ Indeed_Page
    \/ LinkedIn_Page
    \/ ScrapeJobs_LoopEnd
    \/ ScrapeJobs_Exit

SpecScrape == InitScrape /\ [][NextScrape]_vars

InitPage ==
    BotOff /\ AtomicOff /\ OrchOff /\ ScrapeOff /\ PageOff /\ DedupOff

NextPage ==
    \/ Page_Cards
    \/ Page_Gupy
    \/ Page_Indeed
    \/ Page_LinkedIn

SpecPage == InitPage /\ [][NextPage]_vars

InitDedup ==
    BotOff /\ AtomicOff /\ OrchOff /\ ScrapeOff /\ PageOff /\ DedupOff

NextDedup ==
    \/ Dedup_Call
    \/ Dedup_Apply
    \/ Dedup_Again

SpecDedup == InitDedup /\ [][NextDedup]_vars

-----------------------------------------------------------------------------
(* Claims about the sent-jobs ledger of VagasBot *)

\* the ids a reader of vagas_enviadas.json gets
DiskKeys == load_sent_jobs(ledgerFile)

IdsOf(js) == { create_job_id(js[i]) : i \in DOMAIN js }

\* C1: when channel.send raised for a record in a send_new_jobs call, that
\* record's id is neither in the in-memory set nor in the saved file when the
\* call has ended.
C1_FailedNotInLedger ==
    \A t \in Tasks :
        (pc[t] = "idle" /\ report[t] = "success") =>
            \A id \in failedIds[t] : id \notin sent_jobs /\ id \notin DiskKeys

\* every record of the corpus has an id, and no two records share one
CorpusSendable ==
    /\ corpus.exists
    /\ \A i \in DOMAIN corpus.jobs : ~create_job_id_raises(corpus.jobs[i])
    /\ \A i, j \in DOMAIN corpus.jobs :
           create_job_id(corpus.jobs[i]) = create_job_id(corpus.jobs[j]) => i = j

\* C2: over an unchanged corpus whose records all have distinct ids, with a
\* channel that raises at most MaxFails times, repeated send_new_jobs runs
\* eventually deliver every record of the corpus at least once.
C2_EventuallyDelivered ==
    CorpusSendable =>
        <>(\A i \in DOMAIN corpus.jobs : corpus.jobs[i] \in delivered)

\* C3: while the bot process runs, the in-memory ledger only grows, and a
\* selection made by send_new_jobs holds no record whose id was in the ledger
\* before the selection, nor two records with the same id.
C3_NeverReselected ==
    [][ \/ ProcessRestart
        \/ /\ sent_jobs \subseteq sent_jobs'
           /\ \A t \in Tasks :
                new_jobs'[t] # new_jobs[t] =>
                    /\ \A i \in DOMAIN new_jobs'[t] :
                           create_job_id(new_jobs'[t][i]) \notin sent_jobs
                    /\ \A i, j \in DOMAIN new_jobs'[t] :
                           create_job_id(new_jobs'[t][i]) =
                               create_job_id(new_jobs'[t][j]) => i = j ]_vars

\* C3 witness: a call found every record of a non-empty corpus already marked
\* and selected nothing, after another call had sent and saved.
C3_Witness ==
    \E t, u \in Tasks :
        /\ report[t] = "no_new"
        /\ report[u] = "success"
        /\ corpus.jobs # <<>>
        /\ IdsOf(corpus.jobs) \subseteq sent_jobs

\* C4: the saved ledger holds only ids of records the channel accepted, and
\* when a record is about to be handed to the channel the ids of the records
\* already delivered in this call are in the saved file.
C4_PersistedAfterEachSuccess ==
    /\ DiskKeys \subseteq { create_job_id(j) : j \in delivered }
    /\ \A t \in Tasks : pc[t] = "send" => okIds[t] \subseteq DiskKeys

\* C5: whenever no invocation is inside save_sent_jobs (it finished, or the
\* process stopped in it), vagas_enviadas.json is a complete snapshot or
\* absent, never a truncated or partly written file.
C5_LedgerFileNeverPartial ==
    (\A t \in Tasks : pc[t] # "dump") => ledgerFile.kind # "partial"

\* C7: a send_new_jobs call in which save_sent_jobs could not write the
\* ledger does not end with the success report.
C7_SaveFailureNotSuccess ==
    \A t \in Tasks : saveFailed[t] => report[t] # "success"


-----------------------------------------------------------------------------
(* Claims about _atomic_write_json *)

\* C6: the file at path changes only in the os.replace step, and then to the
\* complete new content; while a call is in progress, and after a call that
\* ended in a crash or an exception, path still holds the content it had when
\* the call began.
C6_PathChangesOnlyInReplace ==
    /\ []((awPc # "idle" \/ awLast \in {"crashed", "raised"}) =>
              outFile = awPrev)
    /\ [][outFile' # outFile =>
              (awPc = "replace" /\ outFile' = CompleteFile(awData))]_vars

\* C6 witness: the process stopped after the temporary file was written,
\* complete or partly, and before the replace, over an earlier snapshot.
C6_Witness ==
    /\ awLast = "crashed"
    /\ tmpFile.kind \in {"partial", "complete"}
    /\ outFile.kind = "complete"
    /\ tmpFile # outFile


-----------------------------------------------------------------------------
(* Claims about MainScraper.run_all_scrapers *)

Called(who) == \E i \in DOMAIN events : events[i] = <<who, "call">>

Raised(who) == \E i \in DOMAIN events : events[i] = <<who, "raise">>

\* C8: when a source's runner raised in a run, the outputs of that run are
\* written only after every source has been executed.
C8_FailureDoesNotAbort ==
    (orchPc \in {"done", "raised"} /\ \E p \in PlatformSet : Raised(p)) =>
        \A q \in PlatformSet : Called(q)

\* who acts at each position of a run's history: each runner is called and
\* ends (returns or raises) before the next is called, save_results is last
RunOrder ==
    <<"gupy", "gupy", "indeed", "indeed", "linkedin", "linkedin",
      "save_results">>

\* C9: in every run the runners execute one at a time in the order Gupy,
\* Indeed, LinkedIn, each ending before the next is called, and save_results
\* runs only after the LinkedIn runner.
C9_FixedOrderThenSave ==
    /\ Len(events) <= Len(RunOrder)
    /\ \A i \in DOMAIN events :
          /\ events[i][1] = RunOrder[i]
          /\ events[i][2] = "call" <=> (i % 2 = 1)


-----------------------------------------------------------------------------
(* Claims about the page loop of scrape_jobs *)

\* C10: one scrape_jobs call of a source requests at most max_pages result
\* pages, counting the initial load, next-page clicks and the page URL load
\* of each turn (LinkedIn's repeated loads of the same URL are left out).
C10_AtMostMaxPagesRequests ==
    scSrc \in Sources => requests <= max_pages

\* C11: once a scrape_jobs call with a recency cutoff (Gupy, LinkedIn) has
\* finished a page that held a record older than the cutoff, it requests no
\* further result page.
C11_NoRequestAfterStalePage ==
    staleAt >= 0 => requests = staleAt

\* C13: once a scrape_jobs call has finished a page that gave no parseable
\* record (no card, or no card gave a record) before its page limit, it
\* requests no further result page.
C13_NoRequestAfterEmptyPage ==
    (emptyAt >= 0 /\ emptyAt < max_pages) => requests = emptyAt

-----------------------------------------------------------------------------
(* Claims about the card loop of a page *)

\* a record of the source without a posting date
UndatedRecord(card) ==
    IsRecord(pgSrc, card) /\ ~Truthy(card.info.dataPublicacao)

UndatedJob(job) == ~Truthy(Get(job, "dataPublicacao", None))

\* the records without a date among the page's cards, in page order
UndatedOfPage ==
    LET cs == SelectSeq(pgCards, UndatedRecord)
    IN  [i \in 1..Len(cs) |-> cs[i].info]

-----------------------------------------------------------------------------
(* Claims about the deduplication functions *)

\* job.get('link') or job.get('jobId'), the key of both deduplicate_jobs
LinkOrJobId(job) ==
    IF Truthy(Get(job, "link", None)) THEN job.link
    ELSE Get(job, "jobId", None)

\* the identity key the function at work gives a record
KeyOf(job) == IF ddFn = "indeed" THEN IndeedKey(job) ELSE LinkOrJobId(job)

\* the record as the function at work stores it
Kept(job) == IF ddFn = "indeed" THEN Stored(job) ELSE job

\* the positions of the argument that hold the first record of a key
FirstPositions ==
    { i \in DOMAIN ddIn :
        /\ Truthy(KeyOf(ddIn[i]))
        /\ \A j \in 1..(i - 1) : KeyOf(ddIn[j]) # KeyOf(ddIn[i]) }

\* the k-th of them in list order
NthFirst(k) ==
    CHOOSE i \in FirstPositions :
        Cardinality({ j \in FirstPositions : j <= i }) = k

\* C14: each deduplication function gives, applied to its own output, that
\* output again (for _deduplicate_jobs with the url field as rewritten).
C14_DedupIdempotent ==
    ddPc = "twice" => ddOut2 = ddOut

\* C14 witness: _deduplicate_jobs dropped a duplicate and stored a record
\* with a rewritten url, and was applied to that result.
C14_Witness ==
    /\ ddPc = "twice"
    /\ ddFn = "indeed"
    /\ Len(ddOut) < Len(ddIn)
    /\ \E i \in DOMAIN ddOut : \A k \in DOMAIN ddIn : ddOut[i] # ddIn[k]

\* C15: the output of a deduplication function is the argument's first
\* record of each identity key, in the argument's order (stored with the
\* normalised url by _deduplicate_jobs), and no two output records share a
\* key.
C15_FirstOccurrenceWins ==
    ddPc \in {"once", "twice"} =>
        /\ Len(ddOut) = Cardinality(FirstPositions)
        /\ \A k \in DOMAIN ddOut : ddOut[k] = Kept(ddIn[NthFirst(k)])
        /\ \A a, b \in DOMAIN ddOut :
               KeyOf(ddOut[a]) = KeyOf(ddOut[b]) => a = b

\* C15 witness: deduplicate_jobs was given three records, the third one a
\* different record with the key of the first, and returned the first two.
C15_Witness ==
    /\ ddPc = "once"
    /\ ddFn = "gupy"
    /\ Len(ddIn) = 3
    /\ KeyOf(ddIn[3]) = KeyOf(ddIn[1])
    /\ ddIn[3] # ddIn[1]
    /\ Truthy(KeyOf(ddIn[2]))
    /\ KeyOf(ddIn[2]) # KeyOf(ddIn[1])
    /\ ddOut = <<ddIn[1], ddIn[2]>>

\* the source whose _extract_job_info builds records of this shape
PlatformOf(job) ==
    IF "url" \in DOMAIN job THEN "indeed"
    ELSE IF "jobId" \in DOMAIN job THEN "linkedin"
    ELSE "gupy"

\* equal platform, company and title after lower-casing and stripping
SameFields(a, b) ==
    /\ PlatformOf(a) = PlatformOf(b)
    /\ KeyPart(a, "empresa") = KeyPart(b, "empresa")
    /\ KeyPart(a, "nome") = KeyPart(b, "nome")

\* C17: records with equal (platform, company, title) have one identity key:
\* a deduplication function, which keeps one record for each key, returns
\* no two records that agree in platform, company and title.
C17_EqualFieldsOneKey ==
    ddPc = "once" =>
        \A i, j \in DOMAIN ddOut :
            SameFields(ddOut[i], ddOut[j]) => i = j

\* C18: for every record handed to a deduplication function, create_job_id
\* gives an id without raising, and the record is in the function's output
\* unless an earlier record of the list has its key.
C18_KeyTotalNoRecordDropped ==
    ddPc = "once" =>
        \A i \in DOMAIN ddIn :
            /\ ~create_job_id_raises(ddIn[i])
            /\ \/ \E k \in DOMAIN ddOut : ddOut[k] = Kept(ddIn[i])
               \/ \E j \in 1..(i - 1) :
                      /\ Truthy(KeyOf(ddIn[j]))
                      /\ KeyOf(ddIn[j]) = KeyOf(ddIn[i])

-----------------------------------------------------------------------------
(* Claims about the outputs of a run and the ids of the corpus records *)

\* the records in vagas_consolidadas.json
Consolidated == written.consolidadas.data

\* how many records of a list have the key
CountKey(jobs, key) ==
    Cardinality({ k \in DOMAIN jobs : LinkOrJobId(jobs[k]) = key })

\* C16: when a run has written its outputs and the results of two sources
\* hold a record with the same identity key, vagas_consolidadas.json holds
\* exactly one record with that key.
C16_SharedKeyOnce ==
    orchPc \in {"done", "raised"} =>
        \A p, q \in PlatformSet :
            \A i \in DOMAIN results[p], j \in DOMAIN results[q] :
                ( /\ p # q
                  /\ Truthy(LinkOrJobId(results[p][i]))
                  /\ LinkOrJobId(results[p][i]) = LinkOrJobId(results[q][j]) )
                => CountKey(Consolidated, LinkOrJobId(results[p][i])) = 1

\* C16 witness: a run ended with a Gupy record and a LinkedIn record of the
\* same key in the results, and the consolidated file is shorter than the
\* results together.
C16_Witness ==
    /\ orchPc = "done"
    /\ \E i \in DOMAIN results["gupy"], j \in DOMAIN results["linkedin"] :
          /\ Truthy(LinkOrJobId(results["gupy"][i]))
          /\ LinkOrJobId(results["gupy"][i]) =
                 LinkOrJobId(results["linkedin"][j])
    /\ Len(Consolidated) < Len(results["gupy"]) + Len(results["linkedin"])

\* lower-cased, stripped title of a corpus record: titulo, the field
\* create_job_id reads, or nome, the field the scrapers write
TitleOf(job) ==
    IF "titulo" \in DOMAIN job THEN lower(strip(OrEmpty(job.titulo)))
    ELSE KeyPart(job, "nome")

\* C19: when send_new_jobs has made its selection over an empty ledger,
\* every record of the corpus whose title differs from the title of each
\* earlier record is among the selected records.
C19_DistinctTitlesAllSelected ==
    \A t \in Tasks :
        (pc[t] = "announce" /\ sent_jobs = IdsOf(new_jobs[t])) =>
            \A i \in DOMAIN corpus.jobs :
                (\A j \in 1..(i - 1) :
                     TitleOf(corpus.jobs[j]) # TitleOf(corpus.jobs[i]))
                => \E k \in DOMAIN new_jobs[t] :
                       new_jobs[t][k] = corpus.jobs[i]

\* C20: when a run has ended after a runner raised, every record with a key
\* that the runner had collected in all_jobs is in that source's file and in
\* vagas_consolidadas.json.
C20_CollectedStillWritten ==
    orchPc = "raised" =>
        \A p \in PlatformSet :
            Raised(p) =>
                \A i \in DOMAIN all_jobs :
                    Truthy(LinkOrJobId(all_jobs[i])) =>
                        /\ CountKey(written[p].data,
                                    LinkOrJobId(all_jobs[i])) > 0
                        /\ CountKey(Consolidated,
                                    LinkOrJobId(all_jobs[i])) > 0

\* the run report in relatorio_execucao.json
Relatorio == written.relatorio.data

\* C21: when a run has ended, by return or by exception, the run report
\* gives for every source its record count and its start/end timestamps,
\* names an error for every source whose runner raised, and its consolidated
\* count is the number of records in vagas_consolidadas.json.
C21_ReportCoversEverySource ==
    orchPc \in {"done", "raised"} =>
        /\ written.relatorio.kind = "complete"
        /\ \A p \in PlatformSet :
               /\ p \in DOMAIN Relatorio.resumo_por_plataforma
               /\ p \in Relatorio.timestamps
               /\ Raised(p) => p \in Get(Relatorio, "erros", {})
        /\ Relatorio.total_vagas = Len(Consolidated)

-----------------------------------------------------------------------------
(* Claims about the records a page gives *)

\* C24: no record with an empty or absent title is among the records the
\* card loop of a source keeps for the result of scrape_jobs.
C24_NoUntitledRecord ==
    pgPc = "done" =>
        \A i \in DOMAIN pgJobs : Truthy(Get(pgJobs[i], "nome", None))

\* the card gave a dict with a link and a posting date before cutoff_date
OldCard(card) ==
    /\ card.kind = "info"
    /\ Truthy(card.info.link)
    /\ Truthy(card.info.dataPublicacao)
    /\ OlderThanCutoff(card.info.dataPublicacao)

\* C29: the card loop of GupyScraper.scrape_jobs keeps no record whose
\* lower-cased title contains "senior" or "sr", and a page whose records
\* older than the cutoff all have such a title leaves the stale-page flag
\* unset.
C29_SeniorFilteredBeforeDate ==
    (pgPc = "done" /\ pgSrc = "gupy") =>
        /\ \A i \in DOMAIN pgJobs : ~SeniorTitle(pgJobs[i].nome)
        /\ (\A i \in DOMAIN pgCards :
                OldCard(pgCards[i]) => SeniorTitle(pgCards[i].info.nome))
              => ~pgOld

\* C29 witness: a Gupy page held a record with "Sr" in its title and a date
\* before the cutoff, next to a recent record: only the recent one is kept
\* and the flag is unset.
C29_Witness ==
    /\ pgPc = "done"
    /\ pgSrc = "gupy"
    /\ \E i \in DOMAIN pgCards :
          OldCard(pgCards[i]) /\ SeniorTitle(pgCards[i].info.nome)
    /\ Len(pgJobs) = 1
    /\ ~pgOld

-----------------------------------------------------------------------------
(* Claims about the browser session of scrape_jobs *)

-----------------------------------------------------------------------------
(* Claims about the deliveries of one send_new_jobs call *)

\* a is b with some of its elements left out
RECURSIVE IsSubSeq(_, _)
IsSubSeq(a, b) ==
    IF a = <<>> THEN TRUE
    ELSE IF b = <<>> THEN FALSE
    ELSE IF Head(a) = Head(b) THEN IsSubSeq(Tail(a), Tail(b))
    ELSE IsSubSeq(a, Tail(b))

C25_NoRecordSelectedByBoth ==
    \A t, u \in Tasks :
        (t # u /\ pc[t] # "idle" /\ pc[u] # "idle") =>
            IdsOf(new_jobs[t]) \cap IdsOf(new_jobs[u]) = {}

\* C25 witness: the invocation started by on_ready is suspended in its
\* delivery loop, and the scheduled invocation has started meanwhile and
\* found nothing new in the same corpus.
C25_Witness ==
    /\ pc["on_ready"] \in {"send", "sleep"}
    /\ new_jobs["on_ready"] # <<>>
    /\ report["scheduled"] = "no_new"
    /\ pc["scheduled"] = "idle"

\* C26: when a send_new_jobs call ends with an error at the announcement
\* message, before any record was handed to the channel, the ids of the
\* records it had selected are not in the in-memory sent set.
C26_ErrorLeavesSelectionPending ==
    [][ \A t \in Tasks :
          (pc[t] = "announce" /\ pc'[t] = "idle" /\ report'[t] = "error") =>
              \A i \in DOMAIN new_jobs[t] :
                  create_job_id(new_jobs[t][i]) \notin sent_jobs' ]_vars

\* every record of the corpus that has an id has it in the sent set
NoKeyOutsideLedger ==
    \A i \in DOMAIN corpus.jobs :
        \/ create_job_id_raises(corpus.jobs[i])
        \/ create_job_id(corpus.jobs[i]) \in sent_jobs

\* C30: a send_new_jobs call made when the channel is not found, the corpus
\* file does not exist or the corpus holds no record with an id outside the
\* sent set ends at once, leaves the in-memory sent set and
\* vagas_enviadas.json as they were and hands nothing to the channel.
C30_NothingToSendChangesNothing ==
    [][ \A t \in Tasks : \A channelFound \in BOOLEAN :
          ( /\ SendNewJobs_StartWith(t, channelFound)
            /\ ~channelFound \/ ~corpus.exists \/ NoKeyOutsideLedger ) =>
                 /\ pc'[t] = "idle"
                 /\ UNCHANGED <<sent_jobs, ledgerFile, delivered,
                                failsLeft>> ]_vars

\* C30 witness: with ids in the ledger, a call has ended for each of the
\* reasons: one found no channel, the other no new record.
C30_Witness ==
    /\ sent_jobs # {}
    /\ DiskKeys = sent_jobs
    /\ report["on_ready"] = "no_channel"
    /\ report["scheduled"] = "no_new"

-----------------------------------------------------------------------------
(* Claims about the bot with its schedule *)

\* C22: every complete vagas_enviadas.json holds the ids of the complete
\* file before it: across runs and restarts no id leaves the saved ledger.
C22_SavedKeysNeverRemoved ==
    [][ (ledgerFile' # ledgerFile /\ ledgerFile'.kind = "complete") =>
            savedKeys \subseteq ledgerFile'.keys ]_vars

\* the event loop can start the send_new_jobs task of the tick now
SendIsNext ==
    /\ ready # <<>>
    /\ Head(ready) = "send_new_jobs"
    /\ MayRun("scheduled")

=============================================================================
